---- MODULE Spec2Model ----
(***************************************************************************)
(* Model of munin_exporter.go: the munin-node protocol client (connect,    *)
(* muninCommand with its reconnect loop), the catalog build                *)
(* (registerMetrics, muninList, muninConfig) and the scrape loop           *)
(* (fetchMetrics, main).  Strings are sequences of one-character strings,  *)
(* so that Split, Fields, HasPrefix, ToLower, Replace and ParseFloat are   *)
(* computed as the Go library computes them.                               *)
(***************************************************************************)
EXTENDS Naturals, Sequences, FiniteSets, TLC

\* ------------------------------------------------------------------ bounds
\* end-of-stream events on the first peek of one originating command
MaxReissue == 1
\* failed connect attempts inside one reconnect loop
MaxFail == 1
\* connections left open by connect() and no longer referenced
MaxLeak == 1
\* response lines before the terminator in one config or fetch response
MaxLines == 2

\* ------------------------------------------------------- string library
Str0 == << >>

\* variant: whole-string comparison in place of the prefix test
HasPrefixMutant(s, prefix) == s = prefix
\* strings.HasPrefix
HasPrefix(s, prefix) ==
    /\ Len(prefix) <= Len(s)
    /\ SubSeq(s, 1, Len(prefix)) = prefix

RECURSIVE SplitFrom(_, _, _)
SplitFrom(s, sep, cur) ==
    IF s = << >> THEN << cur >>
    ELSE IF Head(s) = sep THEN << cur >> \o SplitFrom(Tail(s), sep, << >>)
    ELSE SplitFrom(Tail(s), sep, Append(cur, Head(s)))

\* strings.Split(s, sep) for a one-character separator: Split("", ",") is [""]
Split(s, sep) == SplitFrom(s, sep, << >>)

IsSpace(c) == c \in {" ", "\n", "\t", "\r"}

RECURSIVE FieldsFrom(_, _)
FieldsFrom(s, cur) ==
    IF s = << >> THEN (IF cur = << >> THEN << >> ELSE << cur >>)
    ELSE IF IsSpace(Head(s))
         THEN (IF cur = << >> THEN << >> ELSE << cur >>) \o FieldsFrom(Tail(s), << >>)
         ELSE FieldsFrom(Tail(s), Append(cur, Head(s)))

\* strings.Fields
Fields(s) == FieldsFrom(s, << >>)

RECURSIVE TrimRight(_, _)
\* strings.TrimRight(s, cutset) for a one-character cutset
TrimRight(s, c) ==
    IF s # << >> /\ s[Len(s)] = c THEN TrimRight(SubSeq(s, 1, Len(s) - 1), c) ELSE s

RECURSIVE Join(_, _)
\* strings.Join
Join(parts, sep) ==
    IF parts = << >> THEN << >>
    ELSE IF Len(parts) = 1 THEN parts[1]
    ELSE parts[1] \o sep \o Join(Tail(parts), sep)

\* strings.Replace(s, old, new, -1) for one-character old and new
Replace(s, old, new) == [i \in 1..Len(s) |-> IF s[i] = old THEN new ELSE s[i]]

Upper == <<"A","B","C","D","E","F","G","H","I","J","K","L","M",
           "N","O","P","Q","R","S","T","U","V","W","X","Y","Z">>
Lower == <<"a","b","c","d","e","f","g","h","i","j","k","l","m",
           "n","o","p","q","r","s","t","u","v","w","x","y","z">>

\* variant: no case folding
LowerIdentity(c) == c
LowerChar(c) ==
    IF \E i \in 1..26 : Upper[i] = c
    THEN Lower[CHOOSE i \in 1..26 : Upper[i] = c]
    ELSE c

\* strings.ToLower
ToLower(s) == [i \in 1..Len(s) |-> LowerChar(s[i])]

Digits == <<"0","1","2","3","4","5","6","7","8","9">>
IsDigit(c) == \E i \in 1..10 : Digits[i] = c
DigitVal(c) == (CHOOSE i \in 1..10 : Digits[i] = c) - 1

RECURSIVE DecVal(_)
DecVal(s) == IF s = << >> THEN 0 ELSE 10 * DecVal(SubSeq(s, 1, Len(s) - 1)) + DigitVal(s[Len(s)])

\* strconv.ParseFloat on the tokens the agent sends here: unsigned decimal
\* integers parse, anything else ("U", "", words) is an error
ParseFloat(tok) ==
    IF tok # << >> /\ \A i \in 1..Len(tok) : IsDigit(tok[i])
    THEN [ok |-> TRUE, v |-> DecVal(tok)]
    ELSE [ok |-> FALSE, v |-> 0]

\* map helpers (Go map assignment and lookup with zero value)
Put(m, k, v) == [x \in (DOMAIN m) \cup {k} |-> IF x = k THEN v ELSE m[x]]
Get(m, k) == IF k \in DOMAIN m THEN m[k] ELSE Str0
EmptyMap == [x \in {} |-> 0]

\* ---------------------------------------------------------------- inputs
SP == <<" ">>
NL == <<"\n">>
DOT == <<".">>

\* plugin names and field names the agent may announce
PluginA == <<"a">>
PluginAB == <<"a","-","b">>
FieldUdV == <<"u","-","v">>
FieldUuV == <<"u","_","v">>

\* command lines the process may be started with: the values of
\* -metricPrefix and -muninIgnore (both default to "")
Flags ==
    { [metricPrefix |-> Str0, muninIgnore |-> Str0],
      [metricPrefix |-> Str0, muninIgnore |-> <<"b">>],
      [metricPrefix |-> <<"p">>, muninIgnore |-> <<"b",",","a","-">>] }

\* first lines the agent may answer to "list"
ListLines ==
    { PluginA \o SP \o PluginAB \o NL,
      <<"#"," ","n","o">> \o NL }

WType == <<"t","y","p","e">>

\* lines the agent may send in a config response (terminator apart)
ConfigLines ==
    { <<"g","r","a","p","h","_","t","i","t","l","e"," ","T">> \o NL,
      FieldUdV \o DOT \o WType \o SP \o <<"C","o","u","n","t","e","r">> \o NL,
      FieldUdV \o DOT \o WType \o SP \o <<"D","E","R","I","V","E">> \o NL,
      FieldUuV \o DOT \o <<"l","a","b","e","l"," ","L">> \o NL,
      FieldUuV \o DOT \o WType \o SP \o <<"G","A","U","G","E">> \o NL,
      <<"#","c">> \o NL,
      <<"b","a","d">> \o NL,
      NL }

WValue == <<"v","a","l","u","e">>

\* lines the agent may send in a fetch response (terminator apart)
FetchLines ==
    { FieldUdV \o DOT \o WValue \o SP \o <<"1">> \o NL,
      FieldUdV \o DOT \o WValue \o SP \o <<"2">> \o NL,
      FieldUuV \o DOT \o WValue \o SP \o <<"2">> \o NL,
      FieldUdV \o DOT \o WValue \o SP \o <<"U">> \o NL,
      FieldUdV \o SP \o <<"1"," ","2">> \o NL }

\* values time.Since(start).Seconds() may have at the end of a pass
Durations == { 0, 1 }

\* the munin end marker line
EndMarker == DOT \o NL

BannerText == <<"#"," ","m","u","n","i","n"," ","n","o","d","e"," ","a","t"," ">>

\* first lines the agent may send on a new connection
BannerLines ==
    { BannerText \o <<"h","1">> \o NL,
      <<"h","i">> \o NL }

\* muninBanner.FindStringSubmatch(head) for `# munin node at (.*)`:
\* the leftmost occurrence of the literal, the group runs to the line end
MatchAt(head, i) ==
    /\ i + Len(BannerText) - 1 <= Len(head)
    /\ SubSeq(head, i, i + Len(BannerText) - 1) = BannerText
BannerMatches(head) == \E i \in 1..Len(head) : MatchAt(head, i)
BannerHost(head) ==
    LET i == CHOOSE k \in 1..Len(head) :
                 MatchAt(head, k) /\ \A j \in 1..(k - 1) : ~MatchAt(head, j)
        rest == SubSeq(head, i + Len(BannerText), Len(head))
    IN  IF rest # << >> /\ rest[Len(rest)] = "\n"
        THEN SubSeq(rest, 1, Len(rest) - 1) ELSE rest

FetchTimeName ==
    <<"m","u","n","i","n","_","e","x","p","o","r","t","e","r","_",
      "f","e","t","c","h","_","t","i","m","e">>
BuildInfoName ==
    <<"m","u","n","i","n","_","e","x","p","o","r","t","e","r","_",
      "b","u","i","l","d","_","i","n","f","o">>

\* ----------------------------------------------------------------- state
VARIABLES
    pc,               \* function the main goroutine is in
    step,             \* position inside muninCommand / the response loop
    cmd,              \* argument of the running muninCommand
    globalConn,       \* "nil", "open" or "closed"
    leaked,           \* open connections no variable refers to any more
    hostname,
    err,              \* error value that ended the last operation
    exitAt,           \* log.Fatalf call that terminated the process
    fault,            \* where the current connection saw a non-EOF error
    issued,           \* writes of cmd since the originating call
    succ,             \* successful reconnects since the originating call
    failed,           \* failed connect attempts in the current loop
    sleeps,           \* retry sleeps in the current loop
    metricPrefix,     \* *metricPrefix
    muninIgnore,      \* *muninIgnore
    items,            \* registerMetrics: items
    ignoreList,       \* registerMetrics: ignoreList
    idx,              \* registerMetrics: position of the range over items
    graphs,
    config,           \* muninConfig: config
    graphConfig,      \* muninConfig: graphConfig
    pending,          \* registerMetrics: fields the range has not visited
    nlines,           \* lines read from the current response
    gaugePerMetric,   \* name -> (label values -> value)
    counterPerMetric, \* name -> [value, currentLabels]
    registerCalls,    \* collectors handed to prometheus.Register
    gidx,             \* fetchMetrics: position of the range over graphs
    lastLine,         \* (graph, key) -> last well-formed line of this pass
    lastNamed,        \* name -> labels of the last well-formed line so named
    line,             \* the line the last ReadString of the response returned
    consumed,         \* terminator lines read in the current pass
    timeWrites,       \* writes of the scrape-duration gauge in the current pass
    outstanding,      \* commands written on the connection, response not ended
    observed          \* what the last Collect of the pull handler has read

vars == << pc, step, cmd, globalConn, leaked, hostname, err, exitAt, fault,
           issued, succ, failed, sleeps, metricPrefix, muninIgnore, items,
           ignoreList, idx, graphs, config, graphConfig, pending, nlines,
           gaugePerMetric, counterPerMetric, registerCalls, gidx, lastLine,
           lastNamed, line, consumed, timeWrites, outstanding, observed >>

connVars == << globalConn, leaked, hostname, fault >>
retryVars == << issued, succ, failed, sleeps >>
flagVars == << metricPrefix, muninIgnore >>
catalogVars == << items, ignoreList, idx, graphs, config, graphConfig, pending >>
holderVars == << gaugePerMetric, counterPerMetric, registerCalls >>
passVars == << gidx, lastLine, lastNamed, consumed, timeWrites >>

\* the pull handler has collected nothing yet
NoPull == [name |-> Str0, kind |-> "none", value |-> 0, samples |-> {}]

\* transport connections this process holds open
OpenConns ==
    IF pc = "exit" THEN 0
    ELSE leaked + (IF globalConn = "open" THEN 1 ELSE 0)

Init ==
    /\ pc = "init"
    /\ step = "-"
    /\ cmd = Str0
    /\ globalConn = "nil"
    /\ leaked = 0
    /\ hostname = Str0
    /\ err = "nil"
    /\ exitAt = "-"
    /\ fault = "none"
    /\ issued = 0 /\ succ = 0 /\ failed = 0 /\ sleeps = 0
    /\ \E f \in Flags :
          /\ metricPrefix = f.metricPrefix
          /\ muninIgnore = f.muninIgnore
    /\ items = << >>
    /\ ignoreList = << >>
    /\ idx = 0
    /\ graphs = << >>
    /\ config = EmptyMap
    /\ graphConfig = EmptyMap
    /\ pending = {}
    /\ nlines = 0
    /\ gaugePerMetric = EmptyMap
    /\ counterPerMetric = EmptyMap
    /\ registerCalls = {}
    /\ gidx = 0
    /\ lastLine = EmptyMap
    /\ lastNamed = EmptyMap
    /\ line = Str0
    /\ consumed = 0
    /\ timeWrites = 0
    /\ outstanding = 0
    /\ observed = NoPull

\* log.Fatalf: the process ends
Fatal(site, e) ==
    /\ pc' = "exit"
    /\ step' = "-"
    /\ exitAt' = site
    /\ err' = e

\* results of one ReadString('\n'): io.EOF, another error, or a line
ReadOutcomes(lines) ==
    { <<"EOF", Str0>>, <<"other", Str0>> } \cup { <<"line", l>> : l \in lines }

\* ------------------------------------------------------------- connect()
\* outcome of one connect(): what the dial and the banner read produce
ConnectOutcomes ==
    { <<"dial", Str0>>, <<"banner_read", Str0>> }
        \cup { <<"banner", b>> : b \in BannerLines }

\* the error connect() returns
ConnectErr(o) ==
    IF o[1] \in {"dial", "banner_read"} THEN o[1]
    ELSE IF BannerMatches(o[2]) THEN "nil" ELSE "banner_mismatch"

\* effect of connect() on globalConn, the open sockets and hostname
Connect(o) ==
    /\ globalConn' = IF o[1] = "dial" THEN "nil" ELSE "open"
    /\ leaked' = IF globalConn = "open" THEN leaked + 1 ELSE leaked
    /\ hostname' = IF ConnectErr(o) = "nil" THEN BannerHost(o[2]) ELSE hostname
    /\ fault' = IF o[1] = "dial" THEN fault ELSE "none"

\* init(): connect or die
InitConnect ==
    /\ pc = "init"
    /\ \E o \in ConnectOutcomes :
        /\ Connect(o)
        /\ IF ConnectErr(o) = "nil"
           THEN /\ pc' = "main"
                /\ step' = "-"
                /\ UNCHANGED << err, exitAt >>
           ELSE Fatal("init_connect", ConnectErr(o))
    /\ UNCHANGED << outstanding, observed, cmd, retryVars, flagVars,
                    catalogVars, nlines, line, holderVars, passVars >>

\* ------------------------------------------------------- muninCommand()
\* a caller invokes muninCommand(c)
CallCommand(c) ==
    /\ cmd' = c
    /\ step' = "write"
    /\ issued' = 0 /\ succ' = 0 /\ failed' = 0 /\ sleeps' = 0
    /\ nlines' = 0
    /\ line' = Str0

\* bufio.NewReader, fmt.Fprintf(globalConn, cmd+"\n"): the result of the
\* write is not looked at
SendCommand ==
    /\ pc \in {"muninList", "muninConfig", "fetchMetrics"}
    /\ step = "write"
    /\ globalConn = "open"
    /\ issued' = issued + 1
    /\ outstanding' = outstanding + 1
    /\ step' = "peek"
    /\ nlines' = 0
    /\ line' = Str0
    /\ \E wrote \in BOOLEAN :
          fault' = IF wrote THEN fault ELSE "write"
    /\ UNCHANGED << observed, pc, cmd, globalConn, leaked, hostname, err,
                    exitAt, succ, failed, sleeps, flagVars, catalogVars,
                    holderVars, passVars >>

\* what the switch on the error of reader.Peek(1) does
\* variant: the default case does not end the process
PeekExitsMutant(e) == FALSE
PeekExits(e) == e \notin {"EOF", "nil"}

\* reader.Peek(1) returned data: case nil.  A connection that has failed
\* with an error other than io.EOF delivers no further data
PeekData ==
    /\ step = "peek"
    /\ fault = "none"
    /\ step' = "read"
    /\ err' = "nil"
    /\ issued' = 0 /\ succ' = 0 /\ failed' = 0 /\ sleeps' = 0
    /\ UNCHANGED << outstanding, observed, pc, cmd, connVars, exitAt,
                    flagVars, catalogVars, nlines, line, holderVars,
                    passVars >>

\* reader.Peek(1) returned io.EOF: close the connection, enter the loop
PeekEOF ==
    /\ step = "peek"
    /\ succ < MaxReissue
    /\ ~PeekExits("EOF")
    /\ globalConn' = "closed"
    /\ outstanding' = 0
    /\ step' = "connect"
    /\ err' = "EOF"
    /\ failed' = 0 /\ sleeps' = 0
    /\ UNCHANGED << observed, pc, cmd, leaked, hostname, fault, exitAt,
                    issued, succ, flagVars, catalogVars, nlines, line,
                    holderVars, passVars >>

\* reader.Peek(1) returned another error: default case, log.Fatalf
PeekError ==
    /\ step = "peek"
    /\ fault' = "peek"
    /\ IF PeekExits("other")
       THEN Fatal("peek", "other")
       ELSE /\ step' = "read"
            /\ err' = "other"
            /\ UNCHANGED << pc, exitAt >>
    /\ UNCHANGED << outstanding, observed, cmd, globalConn, leaked, hostname,
                    retryVars, flagVars, catalogVars, nlines, line,
                    holderVars, passVars >>

\* variant: the loop gives up at the first failed attempt
AfterConnectGiveUp(e) == IF e = "nil" THEN "write" ELSE "-"
\* where the loop goes after connect() returned e
\* variant: the command is not written again after the reconnect
AfterConnectMutant(e) == IF e = "nil" THEN "peek" ELSE "retry_sleep"
AfterConnect(e) == IF e = "nil" THEN "write" ELSE "retry_sleep"

\* one iteration of the for loop: err = connect(); break on nil, and then
\* return muninCommand(cmd)
Reconnect ==
    /\ step = "connect"
    /\ \E o \in ConnectOutcomes :
        /\ ConnectErr(o) # "nil" => failed < MaxFail
        /\ Connect(o)
        /\ (ConnectErr(o) # "nil" /\ o[1] # "dial") => leaked' < MaxLeak
        /\ step' = AfterConnect(ConnectErr(o))
        /\ err' = IF ConnectErr(o) = "nil" THEN "nil" ELSE "connect"
        /\ succ' = IF ConnectErr(o) = "nil" THEN succ + 1 ELSE succ
        /\ failed' = IF ConnectErr(o) = "nil" THEN failed ELSE failed + 1
    /\ UNCHANGED << outstanding, observed, pc, cmd, exitAt, issued, sleeps,
                    flagVars, catalogVars, nlines, line, holderVars,
                    passVars >>

\* log.Printf("Couldn't reconnect"), time.Sleep(retryInterval)
RetrySleep ==
    /\ step = "retry_sleep"
    /\ sleeps' = sleeps + 1
    /\ step' = "connect"
    /\ UNCHANGED << outstanding, observed, pc, cmd, connVars, err, exitAt,
                    issued, succ, failed, flagVars, catalogVars, nlines,
                    line, holderVars, passVars >>

\* ------------------------------------------------ muninList / muninConfig
WList == <<"l","i","s","t">>
WConfig == <<"c","o","n","f","i","g"," ">>
WFetch == <<"f","e","t","c","h"," ">>
WCounter == <<"c","o","u","n","t","e","r">>
WDerive == <<"d","e","r","i","v","e">>

\* main: registerMetrics() -> muninList() -> muninCommand("list")
RegisterMetricsStart ==
    /\ pc = "main"
    /\ pc' = "muninList"
    /\ CallCommand(WList)
    /\ UNCHANGED << outstanding, observed, connVars, err, exitAt, flagVars,
                    catalogVars, holderVars, passVars >>

\* muninList: the parse of the first response line
ListItems(response) == Fields(TrimRight(response, "\n"))

\* muninList reads the first line; registerMetrics splits the ignore flag.
\* An error returns through registerMetrics to main, which calls log.Fatalf
ListRead ==
    /\ pc = "muninList"
    /\ step = "read"
    /\ \E o \in ReadOutcomes(ListLines) : LET r == o[2] IN
        /\ line' = o[2]
        /\ outstanding' = IF o[1] = "line" THEN 0 ELSE outstanding
        /\ IF o[1] \in {"EOF", "other"}
           THEN /\ Fatal("register", o[1])
                /\ fault' = IF o[1] = "other" THEN "list_line" ELSE fault
                /\ UNCHANGED << items, ignoreList, idx, nlines >>
           ELSE IF r[1] = "#"
           THEN /\ Fatal("register", "items")
                /\ UNCHANGED << fault, items, ignoreList, idx >>
                /\ nlines' = nlines + 1
           ELSE /\ items' = ListItems(r)
                /\ ignoreList' = Split(muninIgnore, ",")
                /\ idx' = 1
                /\ nlines' = nlines + 1
                /\ pc' = "registerMetrics"
                /\ step' = "range"
                /\ err' = "nil"
                /\ UNCHANGED << fault, exitAt >>
    /\ UNCHANGED << observed, cmd, globalConn, leaked, hostname, retryVars,
                    flagVars, graphs, config, graphConfig, pending,
                    holderVars, passVars >>

RECURSIVE SkipLoop(_, _, _)
\* the inner range over ignoreList
SkipLoop(name, list, skip) ==
    IF list = << >> THEN skip
    ELSE SkipLoop(name, Tail(list),
                  IF HasPrefix(name, Head(list)) THEN TRUE ELSE skip)

\* registerMetrics: one iteration of the range over items, up to the call
\* of muninConfig
RangeItems ==
    /\ pc = "registerMetrics"
    /\ step = "range"
    /\ idx <= Len(items)
    /\ LET name == items[idx] IN
        IF SkipLoop(name, ignoreList, FALSE)
        THEN /\ idx' = idx + 1
             /\ UNCHANGED << pc, step, cmd, retryVars, graphs, config,
                             graphConfig, nlines, line >>
        ELSE /\ graphs' = Append(graphs, name)
             /\ pc' = "muninConfig"
             /\ CallCommand(WConfig \o name)
             /\ config' = EmptyMap
             /\ graphConfig' = EmptyMap
             /\ idx' = idx
    /\ UNCHANGED << outstanding, observed, connVars, err, exitAt, flagVars,
                    items, ignoreList, pending, holderVars, passVars >>

\* muninConfig: what one non-comment line adds to config / graphConfig
ConfigKey(l) == Fields(l)[1]
ConfigValue(l) == TrimRight(Join(Tail(Fields(l)), SP), "\n")
ConfigAfter(cfg, l) ==
    LET keyParts == Split(ConfigKey(l), ".") IN
    IF Len(keyParts) > 1
    THEN Put(cfg, keyParts[1],
             Put(IF keyParts[1] \in DOMAIN cfg THEN cfg[keyParts[1]] ELSE EmptyMap,
                 keyParts[2], ConfigValue(l)))
    ELSE cfg
GraphConfigAfter(gcfg, l) ==
    LET keyParts == Split(ConfigKey(l), ".") IN
    IF Len(keyParts) > 1 THEN gcfg
    ELSE Put(gcfg, keyParts[1], ConfigValue(l))

\* variant: only a line without any token is taken as unexpected
TooFewPartsMutant(parts) == Len(parts) < 1
\* muninConfig: len(parts) < 2, the test before "Line unexpected"
TooFewParts(parts) == Len(parts) < 2

\* muninConfig: one resp.ReadString('\n') and the handling of its result
ConfigRead ==
    /\ pc = "muninConfig"
    /\ step = "read"
    /\ \E o \in ReadOutcomes(ConfigLines \cup {EndMarker}) : LET r == o[2] IN
        /\ (o[1] = "line" /\ r # EndMarker) => nlines < MaxLines
        /\ line' = o[2]
        /\ outstanding' = IF r = EndMarker THEN 0 ELSE outstanding
        /\ IF o[1] = "EOF"
           THEN /\ Fatal("config_eof", "EOF")
                /\ UNCHANGED << fault, config, graphConfig, pending, nlines >>
           ELSE IF o[1] = "other"
           THEN /\ Fatal("register", "other")
                /\ fault' = "config_line"
                /\ UNCHANGED << config, graphConfig, pending, nlines >>
           ELSE IF r = EndMarker
           THEN /\ pc' = "registerMetrics"
                /\ step' = "fields"
                /\ pending' = DOMAIN config
                /\ nlines' = 0
                /\ UNCHANGED << fault, err, exitAt, config, graphConfig >>
           ELSE IF r[1] = "#"
           THEN /\ nlines' = nlines + 1
                /\ UNCHANGED << pc, step, fault, err, exitAt, config,
                                graphConfig, pending >>
           ELSE IF TooFewParts(Fields(r))
           THEN /\ Fatal("register", "line")
                /\ nlines' = nlines + 1
                /\ UNCHANGED << fault, config, graphConfig, pending >>
           ELSE /\ config' = ConfigAfter(config, r)
                /\ graphConfig' = GraphConfigAfter(graphConfig, r)
                /\ nlines' = nlines + 1
                /\ UNCHANGED << pc, step, fault, err, exitAt, pending >>
    /\ UNCHANGED << observed, cmd, globalConn, leaked, hostname, retryVars,
                    flagVars, items, ignoreList, idx, graphs, holderVars,
                    passVars >>

\* ------------------------------------------------------ registerMetrics
\* strings.Replace(strings.Join(metricParts, "_"), "-", "_", -1)
Canon(prefix, graph, key) ==
    LET metricParts == IF prefix # Str0 THEN << prefix, graph, key >>
                       ELSE << graph, key >>
    IN  Replace(Join(metricParts, <<"_">>), "-", "_")

\* muninType := strings.ToLower(config["type"])
MuninType(cfg) == ToLower(Get(cfg, WType))
IsCounterType(muninType) == muninType = WCounter \/ muninType = WDerive

NewCounter == [value |-> 0, currentLabels |-> << >>]
NewGaugeVec == EmptyMap

\* the body of the range over configs for one field: build the holder,
\* store it in its map, hand it to prometheus.Register (result dropped).
\* The help text and the constant "type" label of the descriptor are not
\* tracked.
RegisterField ==
    /\ pc = "registerMetrics"
    /\ step = "fields"
    /\ \E metric \in pending :
        LET name == items[idx]
            cfg == config[metric]
            metricName == Canon(metricPrefix, name, metric)
            muninType == MuninType(cfg)
            call == [name |-> metricName, graph |-> name, metric |-> metric]
        IN  /\ pending' = pending \ {metric}
            /\ IF IsCounterType(muninType)
               THEN /\ counterPerMetric' = Put(counterPerMetric, metricName, NewCounter)
                    /\ registerCalls' = registerCalls \cup
                          { [kind |-> "counter"] @@ call }
                    /\ UNCHANGED gaugePerMetric
               ELSE /\ gaugePerMetric' = Put(gaugePerMetric, metricName, NewGaugeVec)
                    /\ registerCalls' = registerCalls \cup
                          { [kind |-> "gauge"] @@ call }
                    /\ UNCHANGED counterPerMetric
    /\ UNCHANGED << outstanding, observed, pc, step, cmd, connVars, err,
                    exitAt, retryVars, flagVars, items, ignoreList, idx,
                    graphs, config, graphConfig, nlines, line, passVars >>

\* the range over configs is exhausted: next item
FieldsDone ==
    /\ pc = "registerMetrics"
    /\ step = "fields"
    /\ pending = {}
    /\ idx' = idx + 1
    /\ step' = "range"
    /\ config' = EmptyMap
    /\ graphConfig' = EmptyMap
    /\ UNCHANGED << outstanding, observed, pc, cmd, connVars, err, exitAt,
                    retryVars, flagVars, items, ignoreList, graphs, pending,
                    nlines, line, holderVars, passVars >>

\* the range over items is exhausted: the built-in metrics, return nil,
\* main starts serveStatus and enters the scrape loop
CatalogDone ==
    /\ pc = "registerMetrics"
    /\ step = "range"
    /\ idx > Len(items)
    /\ gaugePerMetric' = Put(gaugePerMetric, FetchTimeName, NewGaugeVec)
    /\ registerCalls' = registerCalls \cup
          { [name |-> BuildInfoName, kind |-> "gauge",
             graph |-> Str0, metric |-> Str0],
            [name |-> FetchTimeName, kind |-> "gauge",
             graph |-> Str0, metric |-> Str0] }
    /\ pc' = "main_loop"
    /\ step' = "scrape"
    /\ UNCHANGED << outstanding, observed, cmd, connVars, err, exitAt,
                    retryVars, flagVars, catalogVars, nlines, line,
                    counterPerMetric, passVars >>

\* --------------------------------------------------------- fetchMetrics
\* main: log.Printf("Scraping"), fetchMetrics(): start := time.Now()
StartPass ==
    /\ pc = "main_loop"
    /\ step = "scrape"
    /\ pc' = "fetchMetrics"
    /\ step' = "range"
    /\ gidx' = 1
    /\ lastLine' = EmptyMap
    /\ lastNamed' = EmptyMap
    /\ consumed' = 0
    /\ timeWrites' = 0
    /\ outstanding' = 0
    /\ UNCHANGED << observed, cmd, connVars, err, exitAt, retryVars, flagVars,
                    catalogVars, nlines, line, holderVars >>

\* variant: the range ends one plugin early
RangeDoneMutant == gidx >= Len(graphs)
\* for _, graph := range graphs: no plugin is left
RangeDone == gidx > Len(graphs)

\* the range over graphs: muninCommand("fetch " + graph)
FetchNext ==
    /\ pc = "fetchMetrics"
    /\ step = "range"
    /\ ~RangeDone
    /\ CallCommand(WFetch \o graphs[gidx])
    /\ UNCHANGED << outstanding, observed, pc, connVars, err, exitAt, flagVars,
                    catalogVars, holderVars, passVars >>

\* the parse of one fetch line (after TrimRight)
FetchKey(l) == Split(Fields(l)[1], ".")[1]
FetchValue(l) == ParseFloat(Fields(l)[2])
\* variant: the result of the number parse is not looked at
WellFormedMutant(l) == Len(Fields(l)) = 2
WellFormed(l) == Len(Fields(l)) = 2 /\ FetchValue(l).ok

\* variant: any non-empty line ends the response loop
BreaksLoopMutant(l) == Len(l) >= 1
\* len(line) == 1 && line[0] == '.': break
BreaksLoop(l) == Len(l) = 1 /\ l[1] = "."

\* gaugePerMetric[name].WithLabelValues(labels...).Set(value)
\* variant: the child is stored under the field key
GaugeSetMutant(gauges, name, labels, value) ==
    Put(gauges, labels[Len(labels)], Put(EmptyMap, labels, value))
GaugeSet(gauges, name, labels, value) ==
    [gauges EXCEPT ![name] = Put(@, labels, value)]

\* variant: the labels are not stored with the value
UpdateLabelsMutant(counters, name, labels, value) ==
    [counters EXCEPT ![name].value = value]
\* counterPerMetric[name].UpdateLabels(labels, value)
UpdateLabels(counters, name, labels, value) ==
    [counters EXCEPT ![name] = [value |-> value, currentLabels |-> labels]]

\* which map the update of a parsed line goes to: gauge first, then counter
HolderKind(name) ==
    IF name \in DOMAIN gaugePerMetric THEN "gauge"
    ELSE IF name \in DOMAIN counterPerMetric THEN "counter"
    ELSE "none"

\* what main does when fetchMetrics returned e: log a non-nil e, then sleep
\* variant: a non-nil error ends the process
MainAfterPassMutant(e) == IF e = "nil" THEN "sleep" ELSE "exit"
MainAfterPass(e) == "sleep"

\* fetchMetrics returns e to main
ReturnToMain(e) ==
    IF MainAfterPass(e) = "sleep"
    THEN /\ pc' = "main_loop"
         /\ step' = "sleep"
         /\ err' = e
         /\ UNCHANGED exitAt
    ELSE Fatal("fetch", e)

\* fetchMetrics: one munin.ReadString('\n') and the handling of its result
FetchRead ==
    /\ pc = "fetchMetrics"
    /\ step = "read"
    /\ \E o \in ReadOutcomes(FetchLines \cup {EndMarker}) :
        LET l == TrimRight(o[2], "\n")
            graph == graphs[gidx]
        IN
        /\ (o[1] = "line" /\ o[2] # EndMarker) => nlines < MaxLines
        /\ line' = o[2]
        /\ outstanding' = IF o[2] = EndMarker THEN 0 ELSE outstanding
        /\ consumed' = IF o[2] = EndMarker THEN consumed + 1 ELSE consumed
        /\ UNCHANGED timeWrites
        /\ IF o[1] = "EOF"
           THEN /\ Fatal("fetch_eof", "EOF")
                /\ UNCHANGED << fault, nlines, gaugePerMetric,
                                counterPerMetric, gidx, lastLine, lastNamed >>
           ELSE IF o[1] = "other"
           THEN /\ ReturnToMain("other")
                /\ fault' = "fetch_line"
                /\ UNCHANGED << nlines, gaugePerMetric,
                                counterPerMetric, gidx, lastLine, lastNamed >>
           ELSE IF BreaksLoop(l)
           THEN /\ gidx' = gidx + 1
                /\ step' = "range"
                /\ nlines' = 0
                /\ UNCHANGED << pc, err, exitAt, fault, gaugePerMetric,
                                counterPerMetric, lastLine, lastNamed >>
           ELSE /\ nlines' = nlines + 1
                /\ UNCHANGED << pc, step, err, exitAt, fault, gidx >>
                /\ IF ~WellFormed(l)
                   THEN UNCHANGED << gaugePerMetric, counterPerMetric,
                                     lastLine, lastNamed >>
                   ELSE LET key == FetchKey(l)
                            value == FetchValue(l).v
                            name == Canon(metricPrefix, graph, key)
                            labels == << hostname, graph, key >>
                        IN  /\ lastLine' = Put(lastLine, << graph, key >>,
                                     [value |-> value, hostname |-> hostname])
                            /\ lastNamed' = Put(lastNamed, name, labels)
                            /\ CASE HolderKind(name) = "gauge" ->
                                   /\ gaugePerMetric' =
                                         GaugeSet(gaugePerMetric, name, labels, value)
                                   /\ UNCHANGED counterPerMetric
                                [] HolderKind(name) = "counter" ->
                                   /\ counterPerMetric' =
                                         UpdateLabels(counterPerMetric, name, labels, value)
                                   /\ UNCHANGED gaugePerMetric
                                [] OTHER ->
                                   UNCHANGED << gaugePerMetric, counterPerMetric >>
    /\ UNCHANGED << observed, cmd, globalConn, leaked, hostname, retryVars,
                    flagVars, catalogVars, registerCalls >>

\* after the range: the scrape-duration gauge, return to main
FinishPass ==
    /\ pc = "fetchMetrics"
    /\ step = "range"
    /\ RangeDone
    /\ \E elapsed \in Durations :
          gaugePerMetric' =
              GaugeSet(gaugePerMetric, FetchTimeName, << hostname >>, elapsed)
    /\ timeWrites' = timeWrites + 1
    /\ ReturnToMain("nil")
    /\ UNCHANGED << outstanding, observed, cmd, connVars, retryVars, flagVars,
                    catalogVars, nlines, line, counterPerMetric, registerCalls,
                    gidx, lastLine, lastNamed, consumed >>

\* main: log the error if any, time.Sleep(muninScrapeInterval)
ScrapeSleep ==
    /\ pc = "main_loop"
    /\ step = "sleep"
    /\ step' = "scrape"
    /\ UNCHANGED << outstanding, observed, pc, cmd, connVars, err, exitAt,
                    retryVars, flagVars, catalogVars, nlines, line, holderVars,
                    passVars >>

\* ------------------------------------------- the pull handler (serveStatus)
\* prometheus.Register was handed exactly one collector under this name, so
\* the registry holds it and a pull calls its Collect
Registered(n, k) ==
    \A r \in registerCalls : r.name = n => r.kind = k

\* go serveStatus() has run and the process lives; one pull at a time
Serving == pc \in {"main_loop", "fetchMetrics"} /\ observed.kind # "reading"

\* GaugeVec.Collect: under the vector's own lock, one sample per child
CollectGauge ==
    /\ Serving
    /\ \E n \in DOMAIN gaugePerMetric :
        /\ Registered(n, "gauge")
        /\ observed' =
              [name |-> n, kind |-> "gauge", value |-> 0,
               samples |-> { [value |-> gaugePerMetric[n][l], labels |-> l] :
                                l \in DOMAIN gaugePerMetric[n] }]
    /\ UNCHANGED << pc, step, cmd, connVars, err, exitAt, retryVars,
                    flagVars, catalogVars, nlines, line, holderVars,
                    passVars, outstanding >>

\* muninCounter.Collect evaluates c.value: no lock is taken
CollectValue ==
    /\ Serving
    /\ \E n \in DOMAIN counterPerMetric :
        /\ Registered(n, "counter")
        /\ observed' =
              [name |-> n, kind |-> "reading",
               value |-> counterPerMetric[n].value, samples |-> {}]
    /\ UNCHANGED << pc, step, cmd, connVars, err, exitAt, retryVars,
                    flagVars, catalogVars, nlines, line, holderVars,
                    passVars, outstanding >>

\* muninCounter.Collect evaluates c.currentLabels and sends the sample
CollectLabels ==
    /\ observed.kind = "reading"
    /\ observed' =
          [name |-> observed.name, kind |-> "counter", value |-> 0,
           samples |-> { [value |-> observed.value,
                          labels |-> counterPerMetric[observed.name].currentLabels] }]
    /\ UNCHANGED << pc, step, cmd, connVars, err, exitAt, retryVars,
                    flagVars, catalogVars, nlines, line, holderVars,
                    passVars, outstanding >>

Next ==
    \/ InitConnect
    \/ SendCommand
    \/ PeekData
    \/ PeekEOF
    \/ PeekError
    \/ Reconnect
    \/ RetrySleep
    \/ RegisterMetricsStart
    \/ ListRead
    \/ RangeItems
    \/ ConfigRead
    \/ RegisterField
    \/ FieldsDone
    \/ CatalogDone
    \/ StartPass
    \/ FetchNext
    \/ FetchRead
    \/ FinishPass
    \/ ScrapeSleep

Spec == Init /\ [][Next]_vars

\* the process started with -metricPrefix p -muninIgnore b,a-
InitPrefixed == Init /\ metricPrefix = <<"p">>

\* the main goroutine together with the pull handler's goroutine
NextPull ==
    \/ Next
    \/ CollectGauge
    \/ CollectValue
    \/ CollectLabels

SpecPull == InitPrefixed /\ [][NextPull]_vars

\* an iteration of the reconnect loop in which connect() returns nil
ReconnectOK == Reconnect /\ err' = "nil"

\* the main goroutine keeps running: the sleep ends, the command is written;
\* and the agent does not refuse every connect attempt for ever
SpecLive ==
    /\ InitPrefixed
    /\ [][Next]_vars
    /\ WF_vars(RetrySleep)
    /\ WF_vars(SendCommand)
    /\ SF_vars(ReconnectOK)

\* ================================================================ claims
\* catalog build has returned and main is in the scrape loop
Built == pc \in {"main_loop", "fetchMetrics"}

\* fetchMetrics returned nil and main sleeps before the next pass
PassDone == pc = "main_loop" /\ step = "sleep" /\ err = "nil"

\* the command the function at pc asked muninCommand to run
OriginatingCommand ==
    IF pc = "muninList" THEN WList
    ELSE IF pc = "muninConfig" THEN WConfig \o items[idx]
    ELSE WFetch \o graphs[gidx]

\* C1: after an end-of-stream on the first peek the stale connection is
\* closed before the first connect attempt, every failed attempt is followed
\* by exactly one sleep, and the originating command is written exactly once
\* per successful reconnect (one write for the call itself, one more after
\* each reconnect).
C1_ReissueOncePerReconnect ==
    /\ step = "write" => (issued = succ /\ cmd = OriginatingCommand)
    /\ step \in {"peek", "connect", "retry_sleep"} =>
          (issued = succ + 1 /\ cmd = OriginatingCommand)
    /\ step = "connect" => sleeps = failed
    /\ step = "retry_sleep" => sleeps + 1 = failed
    /\ (step = "connect" /\ failed = 0) => globalConn = "closed"

C1_Witness ==
    /\ pc = "fetchMetrics" /\ step = "peek"
    /\ succ = 1 /\ failed = 1 /\ sleeps = 1 /\ issued = 2

\* C2: in every state at most one transport connection to the agent is
\* open.
C2_AtMostOneConnection == OpenConns <= 1

\* C3: an end-of-stream during a command never terminates the process.
C3_StreamEndNeverTerminates == pc = "exit" => err # "EOF"

\* C4 (as claimed): once the connection has seen a transport error other
\* than end-of-stream, on a write or on a read, the process has terminated.
C4_TransportErrorTerminates == fault # "none" => pc = "exit"

\* C4 (amended): a transport error other than end-of-stream on the first
\* peek of a response, or on a later line of a list or config response,
\* terminates the process.
C4_PeekOrCatalogErrorTerminates ==
    fault \in {"peek", "list_line", "config_line"} =>
        (pc = "exit" /\ exitAt \in {"peek", "register"} /\ err = "other")

C4_Witness == pc = "exit" /\ fault = "peek" /\ exitAt = "peek"

\* x is a prefix of p, said without strings.HasPrefix
IsPrefixOf(x, p) == \E k \in 0..Len(p) : SubSeq(p, 1, k) = x
NotIgnored(p) == \A i \in 1..Len(ignoreList) : ~IsPrefixOf(ignoreList[i], p)

\* C5: when catalog build has returned, graphs is the list of the items no
\* entry of the ignore list is a prefix of, in the order of the list
\* response.
C5_RetainedIsFilter == Built => graphs = SelectSeq(items, NotIgnored)

C5_Witness ==
    /\ Built
    /\ items = << PluginA, PluginAB >>
    /\ graphs = << PluginA >>

\* C6: with the default empty -muninIgnore every listed plugin is retained.
C6_EmptyIgnoreKeepsAll == (Built /\ muninIgnore = Str0) => graphs = items

\* C7: after catalog build no canonical name is a key of both holder maps.
C7_OneHolderPerName ==
    Built => (DOMAIN gaugePerMetric) \cap (DOMAIN counterPerMetric) = {}

\* C8: catalog build never completes with two discovered fields registered
\* under the same canonical name.
C8_CollisionAbortsStartup ==
    Built => \A r1, r2 \in registerCalls :
                 r1.name = r2.name =>
                     (r1.graph = r2.graph /\ r1.metric = r2.metric)

\* the two strings are equal up to the case of their letters
FoldEq(s, t) ==
    /\ Len(s) = Len(t)
    /\ \A i \in 1..Len(s) :
          \/ s[i] = t[i]
          \/ \E k \in 1..26 : {s[i], t[i]} = {Upper[k], Lower[k]}
DeclaredCounter(cfg) ==
    FoldEq(Get(cfg, WType), WCounter) \/ FoldEq(Get(cfg, WType), WDerive)

\* C9: every field the range over configs has visited has a holder of the
\* kind its declared type asks for: counter when the type is "counter" or
\* "derive" in any letter case, gauge for any other or absent type.
C9_KindFollowsType ==
    (pc = "registerMetrics" /\ step = "fields") =>
        \A m \in (DOMAIN config) \ pending :
            LET n == Canon(metricPrefix, items[idx], m)
                k == IF DeclaredCounter(config[m]) THEN "counter" ELSE "gauge"
            IN  /\ k = "counter" => n \in DOMAIN counterPerMetric
                /\ k = "gauge" => n \in DOMAIN gaugePerMetric
                /\ \A r \in registerCalls :
                      (r.graph = items[idx] /\ r.metric = m) => r.kind = k
                /\ \E r \in registerCalls :
                      r.graph = items[idx] /\ r.metric = m /\ r.name = n

C9_Witness ==
    /\ pc = "registerMetrics" /\ step = "fields"
    /\ FieldUdV \in (DOMAIN config) \ pending
    /\ Get(config[FieldUdV], WType) = <<"C","o","u","n","t","e","r">>
    /\ Canon(metricPrefix, items[idx], FieldUdV) \in DOMAIN counterPerMetric

\* labels of the last well-formed line of the pass for (graph, key)
LineLabels(gk) == << lastLine[gk].hostname, gk[1], gk[2] >>

\* C10 (as claimed): after a completed pass, for every plugin g and field f
\* with a well-formed line in the pass, a holder under the canonical name
\* of (prefix, g, f) has the value of the last such line, a counter holder
\* together with the labels (hostname, g, f).
C10_HolderHasLastLineOfField ==
    PassDone =>
        \A gk \in DOMAIN lastLine :
            LET n == Canon(metricPrefix, gk[1], gk[2]) IN
            /\ n \in DOMAIN gaugePerMetric =>
                  /\ LineLabels(gk) \in DOMAIN gaugePerMetric[n]
                  /\ gaugePerMetric[n][LineLabels(gk)] = lastLine[gk].value
            /\ n \in DOMAIN counterPerMetric =>
                  counterPerMetric[n] =
                      [value |-> lastLine[gk].value,
                       currentLabels |-> LineLabels(gk)]

\* C10 (amended): after a completed pass, for every canonical name n some
\* well-formed line of the pass derived: a gauge under n has, for each
\* (g, f) deriving n, the child (hostname, g, f) set to the last value read
\* for f in g's response; failing a gauge, a counter under n stores the
\* value and labels of the last well-formed line of the pass deriving n.
\* No holder carries labels that derive another name than its own.
C10_HolderHasLastLineOfName ==
    /\ PassDone =>
        \A n \in DOMAIN lastNamed :
            IF n \in DOMAIN gaugePerMetric
            THEN \A gk \in DOMAIN lastLine :
                    Canon(metricPrefix, gk[1], gk[2]) = n =>
                        /\ LineLabels(gk) \in DOMAIN gaugePerMetric[n]
                        /\ gaugePerMetric[n][LineLabels(gk)] = lastLine[gk].value
            ELSE n \in DOMAIN counterPerMetric =>
                    counterPerMetric[n] =
                        [value |-> lastLine[<< lastNamed[n][2], lastNamed[n][3] >>].value,
                         currentLabels |-> lastNamed[n]]
    /\ \A n \in DOMAIN counterPerMetric :
          LET l == counterPerMetric[n].currentLabels IN
          l # << >> => Canon(metricPrefix, l[2], l[3]) = n
    /\ \A n \in (DOMAIN gaugePerMetric) \ {FetchTimeName} :
          \A l \in DOMAIN gaugePerMetric[n] : Canon(metricPrefix, l[2], l[3]) = n

C10_Witness ==
    /\ PassDone
    /\ \E n \in (DOMAIN counterPerMetric) \ (DOMAIN gaugePerMetric) :
          /\ n \in DOMAIN lastNamed
          /\ counterPerMetric[n].value = 2
          /\ counterPerMetric[n].currentLabels = << <<"h","1">>, PluginA, FieldUuV >>

\* the whitespace-separated tokens of a response line
Tokens(l) == Fields(TrimRight(l, "\n"))
\* the token is written with decimal digits only
IsNumber(t) ==
    /\ t # << >>
    /\ \A i \in 1..Len(t) :
          t[i] \in {"0", "1", "2", "3", "4", "5", "6", "7", "8", "9"}
\* a fetch line without exactly two tokens, or with a second token that
\* is no number
Malformed(l) == Len(Tokens(l)) # 2 \/ ~IsNumber(Tokens(l)[2])

\* C11: reading a malformed line of a fetch response changes no holder and
\* leaves fetchMetrics in the read loop of the same plugin with no error, so
\* that the later lines and plugins of the pass are still read.
C11_MalformedLineSkipped ==
    [][ (pc = "fetchMetrics" /\ step = "read" /\ nlines' = nlines + 1
            /\ Malformed(line'))
        => /\ pc' = "fetchMetrics"
           /\ step' = "read"
           /\ gidx' = gidx
           /\ err' = err
           /\ gaugePerMetric' = gaugePerMetric
           /\ counterPerMetric' = counterPerMetric ]_vars

C11_Witness ==
    /\ pc = "fetchMetrics" /\ step = "read"
    /\ nlines = 2
    /\ line = FieldUdV \o DOT \o WValue \o SP \o <<"U">> \o NL
    /\ gidx = 1 /\ Len(graphs) = 2
    /\ \E n \in DOMAIN counterPerMetric : counterPerMetric[n].value = 1

\* the line was read from the response to a config command
FromConfig == HasPrefix(cmd, WConfig) /\ line # Str0
\* a non-comment line with fewer than two tokens that is not the terminator
MalformedConfig(l) == l # EndMarker /\ l[1] # "#" /\ Len(Tokens(l)) < 2

\* C12 (as claimed): a malformed line of a config response is skipped, and
\* catalog build is not aborted by it.
C12_MalformedConfigLineSkipped ==
    (FromConfig /\ MalformedConfig(line)) => pc # "exit"

\* C12 (amended): a malformed line of a config response makes muninConfig
\* return the error "Line unexpected", on which main ends the process: no
\* later line of the response is read.  A comment line is skipped.
C12_MalformedConfigLineAborts ==
    /\ (FromConfig /\ MalformedConfig(line)) =>
          (pc = "exit" /\ exitAt = "register" /\ err = "line")
    /\ (FromConfig /\ line[1] = "#") => (pc = "muninConfig" /\ step = "read")

C12_Witness ==
    /\ pc = "exit" /\ exitAt = "register" /\ err = "line"
    /\ HasPrefix(cmd, WConfig)
    /\ line = NL
    /\ nlines = 2

\* a (value, labels) pair that one call of UpdateLabels for some
\* well-formed fetch line stores
StoredTogether(s) ==
    /\ Len(s.labels) = 3
    /\ \E l \in FetchLines :
          /\ ~Malformed(l)
          /\ s.value = DecVal(Tokens(l)[2])
          /\ s.labels[3] = Split(Tokens(l)[1], ".")[1]

\* C13: the sample a pull reads from a counter holder is the pair the
\* holder was built with or a pair one update stored together.
C13_PullSeesStoredPair ==
    observed.kind = "counter" =>
        \A s \in observed.samples :
            \/ s = [value |-> 0, labels |-> << >>]
            \/ StoredTogether(s)

\* C14: a pull gets from every registered field holder exactly one sample,
\* with a value for each of the three labels hostname, graph and munin name.
C14_OneFullSamplePerDescriptor ==
    (observed.kind \in {"gauge", "counter"} /\ observed.name # FetchTimeName) =>
        /\ Cardinality(observed.samples) = 1
        /\ \A s \in observed.samples : Len(s.labels) = 3

\* fetchMetrics returned an error and main sleeps before the next pass
PassAborted == pc = "main_loop" /\ step = "sleep" /\ err # "nil"

\* C15: a completed pass has written the scrape-duration gauge once, after
\* the terminator of every plugin's response, with a value >= 0; no write
\* happens before the end of the pass, and none in a pass that aborts.
C15_DurationWrittenOncePerPass ==
    /\ PassDone =>
          /\ timeWrites = 1
          /\ consumed = Len(graphs)
          /\ << hostname >> \in DOMAIN gaugePerMetric[FetchTimeName]
          /\ gaugePerMetric[FetchTimeName][<< hostname >>] >= 0
    /\ pc = "fetchMetrics" => timeWrites = 0
    /\ PassAborted => timeWrites = 0

C15_Witness ==
    /\ PassDone
    /\ Len(graphs) = 2 /\ consumed = 2 /\ timeWrites = 1
    /\ gaugePerMetric[FetchTimeName][<< hostname >>] = 1

C17_CatalogFixedAfterBuild ==
    [][ Built =>
          /\ graphs' = graphs
          /\ DOMAIN gaugePerMetric' = DOMAIN gaugePerMetric
          /\ DOMAIN counterPerMetric' = DOMAIN counterPerMetric
          /\ registerCalls' = registerCalls
          /\ (step = "range" /\ step' = "write") =>
                cmd' = WFetch \o graphs[consumed + 1] ]_vars

C17_Witness ==
    /\ pc = "fetchMetrics" /\ step = "peek"
    /\ Len(graphs) = 2 /\ cmd = WFetch \o graphs[2]
    /\ << hostname >> \in DOMAIN gaugePerMetric[FetchTimeName]
    /\ succ = 1

\* the positions inside muninCommand
InCommand == step \in {"write", "peek", "connect", "retry_sleep"}
InLoop == step \in {"connect", "retry_sleep"}

C19_CommandReturnsNoError ==
    [][ InCommand =>
          \/ InCommand'
          \/ (step' = "read" /\ err' = "nil" /\ fault' = "none"
                /\ globalConn' = "open" /\ pc' = pc)
          \/ (pc' = "exit" /\ exitAt' = "peek") ]_vars

C19_Witness ==
    /\ pc = "muninConfig" /\ step = "read"
    /\ nlines = 0 /\ line = Str0
    /\ err = "nil" /\ fault = "none"

====
